---- MODULE Spec2Model ----
(***************************************************************************)
(* A model of the routing control plane of netsim-analyzer: the BGP        *)
(* path-vector routers (src/src/protocols/bgp.py), the OSPF link-state     *)
(* routers (src/src/protocols/ospf.py), the wiring done by the             *)
(* NetworkSimulator (src/src/network_simulator.py) and the address pool    *)
(* of the DHCP server (src/src/protocols/dhcp.py).                         *)
(*                                                                         *)
(* The program is single-threaded and its cascades are recursive method    *)
(* calls.  The call stack is modelled explicitly: a frame is a suspended   *)
(* for-loop of the source together with the position it has reached, and   *)
(* one step of the model runs the code from one call made by such a loop   *)
(* (or by the outside caller) up to the next one.                          *)
(***************************************************************************)
EXTENDS Integers, Sequences, FiniteSets, TLC

VARIABLES
    peers,              \* BGPRouter.peers: router -> ordered keys of the dict
    bgp_routing_table,  \* BGPRouter.routing_table: router -> dict prefix -> route
    bgp_stack,          \* the suspended advertise_route loops, innermost last
    neighbors,          \* OSPFRouter.neighbors: router -> dict id -> cost
    neighbor_routers,   \* OSPFRouter.neighbor_routers: router -> dict id -> router
    sequence_number,    \* OSPFRouter.sequence_number
    lsdb,               \* OSPFRouter.lsdb: router -> dict originator -> LSA
    lsa_seen,           \* OSPFRouter.lsa_seen: router -> set of LSA ids
    ospf_routing_table, \* OSPFRouter.routing_table: router -> dict dest -> route
    topology,           \* NetworkSimulator.topology: edge -> weight
    ospf_stack,         \* the suspended loops of connect_routers and _flood_lsa
    raised,             \* the exception the last call from outside ended with
    hist,               \* the calls made from outside so far, each with the
                        \* state it started from (a history variable)
    delivered,          \* history: every receive_lsa call, its router and its LSA
    installs,           \* history: the <<router, LSA id>> receive_lsa installed and flooded
    spf_runs,           \* history: the <<router, LSA id>> whose receive_lsa ran _run_spf
    active_leases,      \* DHCPServer.active_leases: dict mac -> lease
    used_ips,           \* DHCPServer.used_ips: dict ip -> mac
    returned,           \* what the last DHCPServer call returned
    dhcp_raised         \* the exception the last DHCPServer call ended with

bgp_vars == <<peers, bgp_routing_table, bgp_stack>>
ospf_state == <<neighbors, neighbor_routers, sequence_number, lsdb, lsa_seen,
                ospf_routing_table>>
ospf_history == <<delivered, installs, spf_runs>>
ospf_vars == <<ospf_state, topology, ospf_stack, raised, ospf_history>>
dhcp_vars == <<active_leases, used_ips, returned, dhcp_raised>>
vars == <<bgp_vars, ospf_vars, dhcp_vars, hist>>

(***************************************************************************)
(* Bounds of the model.                                                    *)
(***************************************************************************)
MaxCalls == 2      \* calls made from outside in one behaviour
MaxConnects == 3   \* connect_routers calls between OSPF routers in one behaviour
MaxFloods == 1     \* receive_lsa and _flood_lsa calls into a wired neighbourhood
MaxDhcpCalls == 3  \* discover, request and release calls on the DHCP server
MaxMixedCalls == 2 \* add_neighbor and connect_routers calls, mixed
MaxPathLen == 2    \* length of an as_path handed in from outside

(***************************************************************************)
(* Python values.                                                          *)
(***************************************************************************)
\* An Optional argument: None, or the value given
None == <<>>
Some(x) == <<x>>

\* A dict is kept as its items in insertion order, as Python iterates it.
\* k in d
DictHas(d, k) == \E i \in 1..Len(d) : d[i].k = k

\* d[k], for a key that is present
DictGet(d, k) == d[CHOOSE i \in 1..Len(d) : d[i].k = k].v

\* d[k] = v: a present key keeps its place, a new key goes last
DictPut(d, k, v) ==
    IF DictHas(d, k)
    THEN LET i == CHOOSE j \in 1..Len(d) : d[j].k = k
         IN  SubSeq(d, 1, i - 1) \o <<[k |-> k, v |-> v]>> \o SubSeq(d, i + 1, Len(d))
    ELSE Append(d, [k |-> k, v |-> v])

Last(s) == s[Len(s)]
ButLast(s) == SubSeq(s, 1, Len(s) - 1)
InSeq(x, s) == \E i \in 1..Len(s) : s[i] = x
SeqsUpTo(S, n) == UNION {[1..k -> S] : k \in 0..n}

(***************************************************************************)
(* BGP                                                                     *)
(***************************************************************************)
BGPRouters == {"AS1_R1", "AS2_R1", "AS3_R1"}

\* the as_number each router was constructed with
as_number == [r \in BGPRouters |->
                 CASE r = "AS1_R1" -> 1 [] r = "AS2_R1" -> 2 [] OTHER -> 3]

ASNumbers == {as_number[r] : r \in BGPRouters}
Prefixes == {"192.168.1.0/24"}
RouterOfAS(a) == CHOOSE r \in BGPRouters : as_number[r] = a

BGPRoute(prefix, as_path, next_hop) ==
    [prefix |-> prefix, as_path |-> as_path, next_hop |-> next_hop,
     local_pref |-> 100, med |-> 0]

\* the routes an outside caller hands to receive_route: a path of distinct
\* AS numbers, with the router of its first AS as the next hop
ExternalPaths ==
    {p \in SeqsUpTo(ASNumbers, MaxPathLen) :
        /\ p # <<>>
        /\ \A i, j \in 1..Len(p) : i # j => p[i] # p[j]}

ExternalRoutes(prefix) ==
    {BGPRoute(prefix, p, RouterOfAS(p[1])) : p \in ExternalPaths}

\* an advertise_route that puts the own AS number at the end of the path
AdvertisedRouteAppending(r, prefix, next_hop, as_path) ==
    BGPRoute(prefix,
             IF as_path = None THEN <<as_number[r]>>
                               ELSE as_path[1] \o <<as_number[r]>>,
             next_hop)

\* advertise_route, lines 27-33: the route it builds and stores
AdvertisedRoute(r, prefix, next_hop, as_path) ==
    BGPRoute(prefix,
             IF as_path = None THEN <<as_number[r]>>
                               ELSE <<as_number[r]>> \o as_path[1],
             next_hop)

\* a loop check that looks at the head of the path only
LoopDetectedAtHead(r, route) == route.as_path[1] = as_number[r]

\* receive_route, line 45
LoopDetected(r, route) == InSeq(as_number[r], route.as_path)

\* a decision that also lets a path of the installed length win
ShorterOrEqualWins(table, r, prefix, route) ==
    \/ ~DictHas(table[r], prefix)
    \/ Len(route.as_path) <= Len(DictGet(table[r], prefix).as_path)

\* a decision that never replaces an installed route
FirstRouteWins(table, r, prefix, route) == ~DictHas(table[r], prefix)

\* receive_route, lines 50-51
ShorterWins(table, r, prefix, route) ==
    \/ ~DictHas(table[r], prefix)
    \/ Len(route.as_path) < Len(DictGet(table[r], prefix).as_path)

\* a receive_route that installs whatever it is handed
EveryRouteAccepted(table, r, prefix, route) == TRUE

ReceiveAccepts(table, r, prefix, route) ==
    /\ ~LoopDetected(r, route)
    /\ ShorterWins(table, r, prefix, route)

\* a suspended "for peer in self.peers.values()" of advertise_route on r;
\* i is the place of the next peer to visit
\* sent_to (a history field): the peers whose receive_route the loop has called
AdvFrame(r, route) == [r |-> r, route |-> route, i |-> 1, sent_to |-> <<>>]

\* receive_route, lines 40-55, up to the loop of the advertise_route it calls:
\* the routing tables and the frame pushed (none when the route is dropped)
ReceiveTable(table, r, prefix, route) ==
    IF ReceiveAccepts(table, r, prefix, route)
    THEN [table EXCEPT ![r] = DictPut(@, prefix,
              AdvertisedRoute(r, prefix, route.next_hop, Some(route.as_path)))]
    ELSE table

ReceivePush(table, r, prefix, route) ==
    IF ReceiveAccepts(table, r, prefix, route)
    THEN <<AdvFrame(r, AdvertisedRoute(r, prefix, route.next_hop,
                                       Some(route.as_path)))>>
    ELSE <<>>

Idle == bgp_stack = <<>> /\ ospf_stack = <<>>
CanCall == Idle /\ Len(hist) < MaxCalls

Call(op, r, arg) ==
    [op |-> op, r |-> r, arg |-> arg, pre |-> bgp_routing_table]

\* an add_peer that also registers the router with its new peer
AddPeerBothWays(ps, r, peer) ==
    [ps EXCEPT ![r] = DictPut(@, peer, peer), ![peer] = DictPut(@, r, r)]

\* add_peer, line 22
AddPeerTo(ps, r, peer) == [ps EXCEPT ![r] = DictPut(@, peer, peer)]

\* an origination that keeps the route the table holds for the prefix
OriginateKeepingEntry(table, r, prefix, route) ==
    IF DictHas(table[r], prefix) THEN table
    ELSE [table EXCEPT ![r] = DictPut(@, prefix, route)]

\* advertise_route, line 33
OriginateTable(table, r, prefix, route) ==
    [table EXCEPT ![r] = DictPut(@, prefix, route)]

\* BGPRouter.add_peer
add_peer(r, peer) ==
    /\ CanCall
    /\ peers' = AddPeerTo(peers, r, peer)
    /\ hist' = Append(hist, Call("add_peer", r, peer))
    /\ UNCHANGED <<bgp_routing_table, bgp_stack, ospf_vars, dhcp_vars>>

\* BGPRouter.advertise_route called without as_path (origination), up to its loop
advertise_route(r, prefix, next_hop) ==
    /\ CanCall
    /\ LET route == AdvertisedRoute(r, prefix, next_hop, None) IN
       /\ bgp_routing_table' = OriginateTable(bgp_routing_table, r, prefix, route)
       /\ bgp_stack' = <<AdvFrame(r, route)>>
       /\ hist' = Append(hist, Call("advertise_route", r, route))
    /\ UNCHANGED <<peers, ospf_vars, dhcp_vars>>

\* BGPRouter.receive_route called from outside
receive_route(r, prefix, route) ==
    /\ CanCall
    /\ bgp_routing_table' = ReceiveTable(bgp_routing_table, r, prefix, route)
    /\ bgp_stack' = ReceivePush(bgp_routing_table, r, prefix, route)
    /\ hist' = Append(hist, Call("receive_route", r, route))
    /\ UNCHANGED <<peers, ospf_vars, dhcp_vars>>

\* one turn of the loop of advertise_route, lines 37-38: the next peer receives
AdvertiseToPeer ==
    /\ bgp_stack # <<>>
    /\ LET f == Last(bgp_stack) IN
       /\ f.i <= Len(peers[f.r])
       /\ LET peer == peers[f.r][f.i].v
              rest == Append(ButLast(bgp_stack),
                             [f EXCEPT !.i = f.i + 1,
                                       !.sent_to = Append(@, peer)])
          IN
          /\ bgp_routing_table' =
                 ReceiveTable(bgp_routing_table, peer, f.route.prefix, f.route)
          /\ bgp_stack' =
                 rest \o ReceivePush(bgp_routing_table, peer, f.route.prefix, f.route)
    /\ UNCHANGED <<peers, hist, ospf_vars, dhcp_vars>>

\* the loop of advertise_route is over: the call returns
AdvertiseReturn ==
    /\ bgp_stack # <<>>
    /\ Last(bgp_stack).i > Len(peers[Last(bgp_stack).r])
    /\ bgp_stack' = ButLast(bgp_stack)
    /\ UNCHANGED <<peers, bgp_routing_table, hist, ospf_vars, dhcp_vars>>

\* NetworkSimulator.connect_routers, lines 30-33, on two BGP routers
ConnectPeers(ps, r1, r2) ==
    LET one == [ps EXCEPT ![r1] = DictPut(@, r2, r2)]
    IN  [one EXCEPT ![r2] = DictPut(@, r1, r1)]

RECURSIVE WirePeers(_, _)
WirePeers(ps, pairs) ==
    IF pairs = <<>> THEN ps
    ELSE WirePeers(ConnectPeers(ps, pairs[1][1], pairs[1][2]), Tail(pairs))

\* the peerings a behaviour starts from: none, the chain of the demo
\* (examples/network_simulation_demo.py, lines 19-20) and the full mesh
InitialWirings ==
    {<<>>,
     <<<<"AS1_R1", "AS2_R1">>, <<"AS2_R1", "AS3_R1">>>>,
     <<<<"AS1_R1", "AS2_R1">>, <<"AS2_R1", "AS3_R1">>, <<"AS3_R1", "AS1_R1">>>>}

\* NetworkSimulator.topology.add_edge(router1_id, router2_id, weight=cost)
AddEdge(topo, r1, r2, cost) ==
    [e \in DOMAIN topo \cup {{r1, r2}} |-> IF e = {r1, r2} THEN cost ELSE topo[e]]

\* NetworkSimulator.connect_routers on two BGP routers, with the default cost
connect_bgp_routers(r1, r2) ==
    /\ CanCall
    /\ topology' = AddEdge(topology, r1, r2, 1)
    /\ peers' = ConnectPeers(peers, r1, r2)
    /\ hist' = Append(hist, Call("connect_routers", r1, r2))
    /\ UNCHANGED <<bgp_routing_table, bgp_stack>>
    /\ UNCHANGED <<ospf_state, ospf_stack, raised, ospf_history, dhcp_vars>>

\* the topology graph after the connect_routers calls of a wiring
WireTopology(w) == [e \in {{w[i][1], w[i][2]} : i \in DOMAIN w} |-> 1]

BGPInit ==
    /\ \E w \in InitialWirings :
           /\ peers = WirePeers([r \in BGPRouters |-> <<>>], w)
           /\ topology = WireTopology(w)
    /\ bgp_routing_table = [r \in BGPRouters |-> <<>>]
    /\ bgp_stack = <<>>

(***************************************************************************)
(* OSPF                                                                    *)
(***************************************************************************)
OSPFRouters == {"R1", "R2", "R3"}
Costs == {1, 2, 4}
DefaultCost == 1   \* add_neighbor(neighbor_id, cost=1.0, neighbor_router=None)
Seqs == {1, 2}
Ages == {0, 1}

LSA(router_id, seq, age, nbrs) ==
    [router_id |-> router_id, sequence_number |-> seq, age |-> age,
     neighbors |-> nbrs, area_id |-> "0"]

\* receive_lsa, line 56: f"{lsa.router_id}_{lsa.sequence_number}".  The text
\* after the last "_" is the number, so two LSAs get the same string exactly
\* when they agree on both parts: the id is kept as the pair.
LsaId(lsa) == <<lsa.router_id, lsa.sequence_number>>

\* what receive_lsa compares of an LSA, lines 65-68
Freshness(lsa) ==
    [router_id |-> lsa.router_id, sequence_number |-> lsa.sequence_number,
     age |-> lsa.age]

\* a receive_lsa that takes every LSA for newer
AlwaysNewer(db, lsa) == TRUE

\* receive_lsa, lines 65-68, with existing_lsa = self.lsdb.get(lsa.router_id)
IsNewer(db, lsa) ==
    \/ ~DictHas(db, lsa.router_id)
    \/ lsa.sequence_number > DictGet(db, lsa.router_id).sequence_number
    \/ /\ lsa.sequence_number = DictGet(db, lsa.router_id).sequence_number
       /\ lsa.age < DictGet(db, lsa.router_id).age

\* nx.Graph as its adjacency: dict node -> dict node -> weight.
\* add_edge(u, v, weight=w) adds the missing nodes and sets the weight both ways
GraphAddNode(adj, u) ==
    IF DictHas(adj, u) THEN adj ELSE Append(adj, [k |-> u, v |-> <<>>])

GraphSetWeight(adj, u, v, w) == DictPut(adj, u, DictPut(DictGet(adj, u), v, w))

\* an add_edge that gives every link the weight 1
GraphAddEdgeUnitWeight(adj, u, v, w) ==
    GraphSetWeight(GraphSetWeight(GraphAddNode(GraphAddNode(adj, u), v),
                                  u, v, 1), v, u, 1)

GraphAddEdge(adj, u, v, w) ==
    GraphSetWeight(GraphSetWeight(GraphAddNode(GraphAddNode(adj, u), v),
                                  u, v, w), v, u, w)

\* _run_spf, lines 93-95: the links of one LSA, then of every LSA of the lsdb
RECURSIVE AddLinks(_, _, _)
AddLinks(adj, lsa, j) ==
    IF j > Len(lsa.neighbors) THEN adj
    ELSE AddLinks(GraphAddEdge(adj, lsa.router_id, lsa.neighbors[j].k,
                               lsa.neighbors[j].v), lsa, j + 1)

RECURSIVE LsdbGraphFrom(_, _, _)
LsdbGraphFrom(adj, db, i) ==
    IF i > Len(db) THEN adj
    ELSE LsdbGraphFrom(AddLinks(adj, db[i].v, 1), db, i + 1)

LsdbGraph(db) == LsdbGraphFrom(<<>>, db, 1)

\* networkx's Dijkstra (_dijkstra_multisource) as _run_spf calls it, lines
\* 100-101: dist, seen and paths are its dicts, fringe its heap of
\* (distance, count, node), popped smallest first.
DijkstraStart(source) ==
    [dist |-> <<>>,
     seen |-> <<[k |-> source, v |-> 0]>>,
     paths |-> <<[k |-> source, v |-> <<source>>]>>,
     fringe |-> {<<0, 0, source>>},
     count |-> 1]

HeapMin(fringe) ==
    CHOOSE t \in fringe :
        \A u \in fringe : t[1] < u[1] \/ (t[1] = u[1] /\ t[2] <= u[2])

\* the loop over the neighbours of the node just popped.  (A distance below
\* one already final would raise ValueError; it needs a negative weight.)
RECURSIVE Relax(_, _, _, _)
Relax(st, nbrs, v, j) ==
    IF j > Len(nbrs) THEN st
    ELSE LET u == nbrs[j].k
             vu_dist == DictGet(st.dist, v) + nbrs[j].v
         IN  IF DictHas(st.dist, u) THEN Relax(st, nbrs, v, j + 1)
             ELSE IF ~DictHas(st.seen, u) \/ vu_dist < DictGet(st.seen, u)
             THEN Relax([st EXCEPT
                           !.seen = DictPut(@, u, vu_dist),
                           !.fringe = @ \cup {<<vu_dist, st.count, u>>},
                           !.count = @ + 1,
                           !.paths = DictPut(@, u, Append(DictGet(st.paths, v), u))],
                        nbrs, v, j + 1)
             ELSE Relax(st, nbrs, v, j + 1)

RECURSIVE DijkstraLoop(_, _)
DijkstraLoop(adj, st) ==
    IF st.fringe = {} THEN st
    ELSE LET t == HeapMin(st.fringe)
             rest == [st EXCEPT !.fringe = @ \ {t}]
         IN  IF DictHas(st.dist, t[3]) THEN DijkstraLoop(adj, rest)
             ELSE DijkstraLoop(adj,
                      Relax([rest EXCEPT !.dist = DictPut(@, t[3], t[1])],
                            DictGet(adj, t[3]), t[3], 1))

\* _run_spf, lines 104-108: the table built from paths and costs
RECURSIVE RoutesFrom(_, _, _)
RoutesFrom(st, i, table) ==
    IF i > Len(st.paths) THEN table
    ELSE LET dest == st.paths[i].k
             path == st.paths[i].v
         IN  RoutesFrom(st, i + 1,
                 IF Len(path) > 1
                 THEN DictPut(table, dest, <<path[2], DictGet(st.dist, dest)>>)
                 ELSE table)

\* single_source_dijkstra_path raises NodeNotFound for a source that is no
\* node of the graph; _run_spf catches NetworkXNoPath only
SpfRaises(r, db) == ~DictHas(LsdbGraph(db), r)

\* _run_spf, lines 86-108: the routing table it leaves when it does not raise
SpfTable(r, db) ==
    RoutesFrom(DijkstraLoop(LsdbGraph(db), DijkstraStart(r)), 1, <<>>)

\* OSPFRouter.get_route
get_route(r, destination) ==
    IF DictHas(ospf_routing_table[r], destination)
    THEN Some(DictGet(ospf_routing_table[r], destination))
    ELSE None

\* a receive_lsa without the guard of lines 57-59
NeverSeen(seen, lsa) == FALSE

\* a receive_lsa that remembers the id of the last LSA only
MarkSeenForgetting(seen, lsa) == {LsaId(lsa)}

\* receive_lsa, line 61
MarkSeen(seen, lsa) == seen \cup {LsaId(lsa)}

\* receive_lsa, lines 55-59
AlreadySeen(seen, lsa) == LsaId(lsa) \in seen

\* a _generate_lsa that leaves the counter's value in the LSA
GeneratedLSAWithOldNumber(r, seq, nbrs) == LSA(r, seq, 0, nbrs)

\* a receive_lsa that installs and refloods whatever it is handed
InstallsEverything(seen, db, lsa) == TRUE

\* receive_lsa, lines 55-69: the LSA goes into the lsdb
Installs(seen, db, lsa) == ~AlreadySeen(seen, lsa) /\ IsNewer(db, lsa)

\* a _flood_lsa that leaves no neighbour out
FloodsToAll(neighbor_id, lsa) == TRUE

\* a _flood_lsa that sends to no one
FloodsToNone(neighbor_id, lsa) == FALSE

\* _flood_lsa, line 82
FloodsTo(neighbor_id, lsa) == neighbor_id # lsa.router_id

\* a suspended "for neighbor_id, neighbor_router in self.neighbor_routers.items()"
\* of _flood_lsa on r; i is the place of the next neighbour.  spf: the call came
\* from receive_lsa, which runs _run_spf when it returns.  History kept with the
\* frame: came_from, where the LSA reached r from, and sent_to, the neighbours
\* this loop has called so far.
FloodFrame(r, lsa, spf, came_from) ==
    [kind |-> "flood", r |-> r, lsa |-> lsa, i |-> 1, spf |-> spf,
     came_from |-> came_from, sent_to |-> {}]

\* connect_routers between its calls: the two loops over the lsdbs (lines
\* 44-47; n is the size the dict iterator started with), then line 55 to come
ShareFrame(r1, r2, phase, n) ==
    [kind |-> "connect", r1 |-> r1, r2 |-> r2, phase |-> phase, i |-> 1, n |-> n]

SecondFloodFrame(r2, lsa2) ==
    [kind |-> "connect", r2 |-> r2, phase |-> "flood2", lsa2 |-> lsa2]

\* add_neighbor, lines 30-32
AddNeighbor(nbrs, r, neighbor_id, cost) ==
    [nbrs EXCEPT ![r] = DictPut(@, neighbor_id, cost)]

\* an add_neighbor that drops the router reference it is given
AddNeighborWithoutRouter(refs, r, neighbor_id, neighbor_router) == refs

AddNeighborRouter(refs, r, neighbor_id, neighbor_router) ==
    IF neighbor_router = None THEN refs
    ELSE [refs EXCEPT ![r] = DictPut(@, neighbor_id, neighbor_router[1])]

\* _generate_lsa, lines 39-47: the LSA made by a router whose counter is seq
GeneratedLSA(r, seq, nbrs) == LSA(r, seq + 1, 0, nbrs)

\* a _generate_lsa that does not put the LSA into the lsdb
StoreNoOwnLSA(db, r, seq, nbrs) == db

\* _generate_lsa, line 47
StoreOwnLSA(db, r, seq, nbrs) ==
    [db EXCEPT ![r] = DictPut(@, r, GeneratedLSA(r, seq, nbrs))]

OCall(op, r, arg) == [op |-> op, r |-> r, arg |-> arg]

\* OSPFRouter.add_neighbor
add_neighbor(r, neighbor_id, cost, neighbor_router) ==
    /\ CanCall
    /\ neighbors' = AddNeighbor(neighbors, r, neighbor_id, cost)
    /\ neighbor_routers' =
           AddNeighborRouter(neighbor_routers, r, neighbor_id, neighbor_router)
    /\ sequence_number' = [sequence_number EXCEPT ![r] = @ + 1]
    /\ lsdb' = StoreOwnLSA(lsdb, r, sequence_number[r], neighbors'[r])
    /\ raised' = ""
    /\ hist' = Append(hist, OCall("add_neighbor", r,
                                  <<neighbor_id, cost, neighbor_router>>))
    /\ UNCHANGED <<lsa_seen, ospf_routing_table, topology, ospf_stack>>
    /\ UNCHANGED <<ospf_history, bgp_vars, dhcp_vars>>

\* OSPFRouter._generate_lsa
generate_lsa(r) ==
    /\ CanCall
    /\ sequence_number' = [sequence_number EXCEPT ![r] = @ + 1]
    /\ lsdb' = StoreOwnLSA(lsdb, r, sequence_number[r], neighbors[r])
    /\ raised' = ""
    /\ hist' = Append(hist, OCall("generate_lsa", r, <<>>))
    /\ UNCHANGED <<neighbors, neighbor_routers, lsa_seen, ospf_routing_table>>
    /\ UNCHANGED <<topology, ospf_stack, ospf_history, bgp_vars, dhcp_vars>>

\* receive_lsa, lines 51-76, up to the loop of the _flood_lsa it calls, when
\* called with the call stack `stack`
ReceiveLSA(r, lsa, came_from, stack) ==
    LET install == Installs(lsa_seen[r], lsdb[r], lsa) IN
    /\ lsa_seen' = [lsa_seen EXCEPT ![r] = MarkSeen(@, lsa)]
    /\ lsdb' = IF install
               THEN [lsdb EXCEPT ![r] = DictPut(@, lsa.router_id, lsa)]
               ELSE lsdb
    /\ ospf_stack' = IF install
                     THEN Append(stack, FloodFrame(r, lsa, TRUE, came_from))
                     ELSE stack
    /\ delivered' = Append(delivered, [to |-> r, lsa |-> Freshness(lsa)])
    /\ installs' = IF install THEN Append(installs, <<r, LsaId(lsa)>>) ELSE installs

\* a call ends with an exception no frame catches: the whole stack unwinds
Raise(exception) ==
    /\ ospf_stack' = <<>>
    /\ raised' = exception

\* OSPFRouter.receive_lsa called from outside
receive_lsa(r, lsa) ==
    /\ CanCall
    /\ ReceiveLSA(r, lsa, "outside", <<>>)
    /\ raised' = ""
    /\ hist' = Append(hist, OCall("receive_lsa", r, lsa))
    /\ UNCHANGED <<neighbors, neighbor_routers, sequence_number>>
    /\ UNCHANGED <<ospf_routing_table, topology, spf_runs, bgp_vars, dhcp_vars>>

\* OSPFRouter._flood_lsa called from outside, up to its loop
flood_lsa(r, lsa) ==
    /\ Idle
    /\ Len(hist) < MaxFloods
    /\ ospf_stack' = <<FloodFrame(r, lsa, FALSE, "outside")>>
    /\ raised' = ""
    /\ hist' = Append(hist, OCall("flood_lsa", r, lsa))
    /\ UNCHANGED <<ospf_state, topology, ospf_history, bgp_vars, dhcp_vars>>

\* NetworkSimulator.connect_routers on two OSPF routers, lines 24-42: the edge,
\* the two add_neighbor calls, and the start of the first loop
connect_routers(r1, r2, cost) ==
    /\ Idle
    /\ Len(hist) < MaxConnects
    /\ topology' = AddEdge(topology, r1, r2, cost)
    /\ neighbors' = AddNeighbor(AddNeighbor(neighbors, r1, r2, cost), r2, r1, cost)
    /\ neighbor_routers' =
           AddNeighborRouter(AddNeighborRouter(neighbor_routers, r1, r2, Some(r2)),
                             r2, r1, Some(r1))
    /\ sequence_number' = [sequence_number EXCEPT ![r1] = @ + 1, ![r2] = @ + 1]
    /\ lsdb' = StoreOwnLSA(StoreOwnLSA(lsdb, r1, sequence_number[r1], neighbors'[r1]),
                           r2, sequence_number[r2], neighbors'[r2])
    /\ ospf_stack' = <<ShareFrame(r1, r2, "share12", Len(lsdb'[r1]))>>
    /\ raised' = ""
    /\ hist' = Append(hist, OCall("connect_routers", r1, <<r2, cost>>))
    /\ UNCHANGED <<lsa_seen, ospf_routing_table, ospf_history, bgp_vars, dhcp_vars>>

\* one turn of a loop of lines 44-47: the other router receives the next LSA.
\* (A dict that changed size under its iterator raises RuntimeError.)
ConnectShare ==
    /\ ospf_stack # <<>>
    /\ LET f == Last(ospf_stack) IN
       /\ f.kind = "connect"
       /\ f.phase \in {"share12", "share21"}
       /\ LET src == IF f.phase = "share12" THEN f.r1 ELSE f.r2
              dst == IF f.phase = "share12" THEN f.r2 ELSE f.r1
          IN  /\ f.i <= f.n
              /\ IF Len(lsdb[src]) # f.n
                 THEN /\ Raise("RuntimeError")
                      /\ UNCHANGED <<lsdb, lsa_seen, delivered, installs>>
                 ELSE /\ ReceiveLSA(dst, lsdb[src][f.i].v, src,
                             Append(ButLast(ospf_stack), [f EXCEPT !.i = @ + 1]))
                      /\ UNCHANGED raised
    /\ UNCHANGED <<neighbors, neighbor_routers, sequence_number>>
    /\ UNCHANGED <<ospf_routing_table, topology, spf_runs, hist, bgp_vars, dhcp_vars>>

\* a loop of lines 44-47 is over: the second loop starts, or (lines 50-54) both
\* routers generate their LSAs and router1 starts flooding its own
ConnectShareDone ==
    /\ ospf_stack # <<>>
    /\ LET f == Last(ospf_stack) IN
       /\ f.kind = "connect"
       /\ f.phase \in {"share12", "share21"}
       /\ f.i > f.n
       /\ IF Len(lsdb[IF f.phase = "share12" THEN f.r1 ELSE f.r2]) # f.n
          THEN /\ Raise("RuntimeError")
               /\ UNCHANGED <<sequence_number, lsdb>>
          ELSE IF f.phase = "share12"
          THEN /\ ospf_stack' = Append(ButLast(ospf_stack),
                       ShareFrame(f.r1, f.r2, "share21", Len(lsdb[f.r2])))
               /\ UNCHANGED <<sequence_number, lsdb, raised>>
          ELSE LET lsa1 == GeneratedLSA(f.r1, sequence_number[f.r1], neighbors[f.r1])
                   lsa2 == GeneratedLSA(f.r2, sequence_number[f.r2], neighbors[f.r2])
               IN  /\ sequence_number' =
                          [sequence_number EXCEPT ![f.r1] = @ + 1, ![f.r2] = @ + 1]
                   /\ lsdb' = [lsdb EXCEPT ![f.r1] = DictPut(@, f.r1, lsa1),
                                           ![f.r2] = DictPut(@, f.r2, lsa2)]
                   /\ ospf_stack' = Append(ButLast(ospf_stack),
                                           SecondFloodFrame(f.r2, lsa2))
                                    \o <<FloodFrame(f.r1, lsa1, FALSE, "own")>>
                   /\ UNCHANGED raised
    /\ UNCHANGED <<neighbors, neighbor_routers, lsa_seen, ospf_routing_table>>
    /\ UNCHANGED <<topology, ospf_history, hist, bgp_vars, dhcp_vars>>

\* connect_routers, line 55: router2 floods its own LSA, and the call is over
ConnectFloodSecond ==
    /\ ospf_stack # <<>>
    /\ LET f == Last(ospf_stack) IN
       /\ f.kind = "connect"
       /\ f.phase = "flood2"
       /\ ospf_stack' = Append(ButLast(ospf_stack),
                               FloodFrame(f.r2, f.lsa2, FALSE, "own"))
    /\ UNCHANGED <<ospf_state, topology, raised, ospf_history, hist, bgp_vars, dhcp_vars>>

\* one turn of the loop of _flood_lsa, lines 81-84
FloodToNeighbour ==
    /\ ospf_stack # <<>>
    /\ LET f == Last(ospf_stack) IN
       /\ f.kind = "flood"
       /\ f.i <= Len(neighbor_routers[f.r])
       /\ LET neighbor_id == neighbor_routers[f.r][f.i].k
              neighbor_router == neighbor_routers[f.r][f.i].v
          IN  IF FloodsTo(neighbor_id, f.lsa)
              THEN ReceiveLSA(neighbor_router, f.lsa, f.r,
                       Append(ButLast(ospf_stack),
                              [f EXCEPT !.i = @ + 1,
                                        !.sent_to = @ \cup {neighbor_id}]))
              ELSE /\ ospf_stack' = Append(ButLast(ospf_stack),
                                           [f EXCEPT !.i = @ + 1])
                   /\ UNCHANGED <<lsdb, lsa_seen, delivered, installs>>
    /\ UNCHANGED <<neighbors, neighbor_routers, sequence_number>>
    /\ UNCHANGED <<ospf_routing_table, topology, raised, spf_runs, hist, bgp_vars, dhcp_vars>>

\* the loop of _flood_lsa is over; back in receive_lsa, line 76, _run_spf runs
FloodReturn ==
    /\ ospf_stack # <<>>
    /\ LET f == Last(ospf_stack) IN
       /\ f.kind = "flood"
       /\ f.i > Len(neighbor_routers[f.r])
       /\ IF ~f.spf
          THEN /\ ospf_stack' = ButLast(ospf_stack)
               /\ UNCHANGED <<ospf_routing_table, raised, spf_runs>>
          ELSE /\ spf_runs' = Append(spf_runs, <<f.r, LsaId(f.lsa)>>)
               /\ IF SpfRaises(f.r, lsdb[f.r])
                  THEN /\ Raise("NodeNotFound")
                       /\ UNCHANGED ospf_routing_table
                  ELSE /\ ospf_routing_table' =
                              [ospf_routing_table EXCEPT
                                  ![f.r] = SpfTable(f.r, lsdb[f.r])]
                       /\ ospf_stack' = ButLast(ospf_stack)
                       /\ UNCHANGED raised
    /\ UNCHANGED <<neighbors, neighbor_routers, sequence_number, lsdb, lsa_seen>>
    /\ UNCHANGED <<topology, delivered, installs, hist, bgp_vars, dhcp_vars>>

OSPFInit ==
    /\ neighbors = [r \in OSPFRouters |-> <<>>]
    /\ neighbor_routers = [r \in OSPFRouters |-> <<>>]
    /\ sequence_number = [r \in OSPFRouters |-> 0]
    /\ lsdb = [r \in OSPFRouters |-> <<>>]
    /\ lsa_seen = [r \in OSPFRouters |-> {}]
    /\ ospf_routing_table = [r \in OSPFRouters |-> <<>>]
    /\ ospf_stack = <<>>
    /\ raised = ""
    /\ delivered = <<>>
    /\ installs = <<>>
    /\ spf_runs = <<>>

(***************************************************************************)
(* DHCP: one DHCPServer and its address pool (src/src/protocols/dhcp.py).  *)
(* Addresses are numbered; the pool is start_ip..end_ip.                   *)
(***************************************************************************)
MACs == {"mac1", "mac2"}

\* DHCPServer.__init__, lines 21-22: the ends of the pool
start_ip == 2
end_ip == 3

\* the addresses a client may ask for: the pool and one address on each side
Addresses == (start_ip - 1)..(end_ip + 1)

\* DHCPLease, without the fields that are the same for every lease
DHCPLease(ip_address, mac_address) ==
    [ip_address |-> ip_address, mac_address |-> mac_address]

\* del d[k]
DictDel(d, k) == SelectSeq(d, LAMBDA e : e.k # k)

\* request, line 59
InRange(ip) == start_ip <= ip /\ ip <= end_ip

\* a request that never finds the address taken
HeldByNobody(used, mac_address, requested_ip) == FALSE

\* request, line 64
HeldByAnother(used, mac_address, requested_ip) ==
    /\ DictHas(used, requested_ip)
    /\ DictGet(used, requested_ip) # mac_address

\* DHCPServer._get_available_ip, from the address current on
RECURSIVE get_available_ip(_, _)
get_available_ip(used, current) ==
    IF current > end_ip THEN None
    ELSE IF ~DictHas(used, current) THEN Some(current)
         ELSE get_available_ip(used, current + 1)

CanCallDhcp == Idle /\ Len(hist) < MaxDhcpCalls

\* DHCPServer.discover
discover(mac_address) ==
    /\ CanCallDhcp
    /\ returned' = IF DictHas(active_leases, mac_address)
                   THEN Some(DictGet(active_leases, mac_address).ip_address)
                   ELSE get_available_ip(used_ips, start_ip)
    /\ dhcp_raised' = ""
    /\ hist' = Append(hist, OCall("discover", mac_address, None))
    /\ UNCHANGED <<active_leases, used_ips, bgp_vars, ospf_vars>>

\* DHCPServer.request
request(mac_address, requested_ip) ==
    /\ CanCallDhcp
    /\ IF ~InRange(requested_ip) \/ HeldByAnother(used_ips, mac_address, requested_ip)
       THEN /\ returned' = None
            /\ UNCHANGED <<active_leases, used_ips>>
       ELSE LET lease == DHCPLease(requested_ip, mac_address) IN
            /\ active_leases' = DictPut(active_leases, mac_address, lease)
            /\ used_ips' = DictPut(used_ips, requested_ip, mac_address)
            /\ returned' = Some(lease)
    /\ dhcp_raised' = ""
    /\ hist' = Append(hist, OCall("request", mac_address, requested_ip))
    /\ UNCHANGED <<bgp_vars, ospf_vars>>

\* DHCPServer.release
release(mac_address) ==
    /\ CanCallDhcp
    /\ IF ~DictHas(active_leases, mac_address)
       THEN /\ dhcp_raised' = ""
            /\ UNCHANGED <<active_leases, used_ips>>
       ELSE LET lease == DictGet(active_leases, mac_address) IN
            IF ~DictHas(used_ips, lease.ip_address)
            THEN /\ dhcp_raised' = "KeyError"
                 /\ UNCHANGED <<active_leases, used_ips>>
            ELSE /\ used_ips' = DictDel(used_ips, lease.ip_address)
                 /\ active_leases' = DictDel(active_leases, mac_address)
                 /\ dhcp_raised' = ""
    /\ returned' = None
    /\ hist' = Append(hist, OCall("release", mac_address, None))
    /\ UNCHANGED <<bgp_vars, ospf_vars>>

DHCPInit ==
    /\ active_leases = <<>>
    /\ used_ips = <<>>
    /\ returned = None
    /\ dhcp_raised = ""

(***************************************************************************)
(* Specifications                                                          *)
(***************************************************************************)
\* the BGP routers called directly, from one of the initial peerings
Init ==
    /\ BGPInit
    /\ OSPFInit
    /\ DHCPInit
    /\ hist = <<>>

AddPeer == \E r \in BGPRouters : \E p \in BGPRouters \ {r} : add_peer(r, p)
Advertise == \E r \in BGPRouters, p \in Prefixes : advertise_route(r, p, r)
Receive == \E r \in BGPRouters, p \in Prefixes :
               \E route \in ExternalRoutes(p) : receive_route(r, p, route)

Next == AddPeer \/ Advertise \/ Receive \/ AdvertiseToPeer \/ AdvertiseReturn

Spec == Init /\ [][Next]_vars

\* the BGP routers driven through the NetworkSimulator only: connect_routers
\* and advertise_bgp_route.  A call that has started runs on: the cascade is
\* one Python call stack.
ConnectBGP == \E r1 \in BGPRouters : \E r2 \in BGPRouters \ {r1} :
                  connect_bgp_routers(r1, r2)

NetNext == ConnectBGP \/ Advertise \/ AdvertiseToPeer \/ AdvertiseReturn

NetSpec ==
    /\ Init
    /\ [][NetNext]_vars
    /\ WF_vars(AdvertiseToPeer)
    /\ WF_vars(AdvertiseReturn)

\* the links connect_routers may be called for, and the orders in which some
\* of them, each once, are made
PeerLinks ==
    {<<"AS1_R1", "AS2_R1">>, <<"AS2_R1", "AS3_R1">>, <<"AS3_R1", "AS1_R1">>}

LinkOrders ==
    {w \in UNION {[1..n -> PeerLinks] : n \in 0..Cardinality(PeerLinks)} :
        \A i, j \in 1..Len(w) : w[i] = w[j] => i = j}

OriginInit ==
    /\ \E w \in LinkOrders :
           /\ peers = WirePeers([r \in BGPRouters |-> <<>>], w)
           /\ topology = WireTopology(w)
    /\ bgp_routing_table = [r \in BGPRouters |-> <<>>]
    /\ bgp_stack = <<>>
    /\ OSPFInit
    /\ DHCPInit
    /\ hist = <<>>

OriginNext == Advertise \/ AdvertiseToPeer \/ AdvertiseReturn

\* originations in a peer graph wired by connect_routers in any order
OriginSpec == OriginInit /\ [][OriginNext]_vars

\* get_route_info, lines 99-106: the first route of the table whose as_path
\* ends with the AS number a
RECURSIVE FirstRouteTo(_, _, _)
FirstRouteTo(table, a, i) ==
    IF i > Len(table) THEN None
    ELSE IF /\ table[i].v.as_path # <<>>
            /\ Last(table[i].v.as_path) = a
         THEN Some(table[i].v)
         ELSE FirstRouteTo(table, a, i + 1)

\* NetworkSimulator.get_route_info on two BGP routers
get_route_info(source, destination) ==
    LET found == FirstRouteTo(bgp_routing_table[source], as_number[destination], 1)
    IN  [source |-> source,
         destination |-> destination,
         path |-> IF found = None THEN None ELSE Some(found[1].as_path),
         protocol |-> IF found = None THEN None ELSE Some("BGP")]

\* the OSPF routers, freshly constructed
FreshInit ==
    /\ peers = [r \in BGPRouters |-> <<>>]
    /\ bgp_routing_table = [r \in BGPRouters |-> <<>>]
    /\ bgp_stack = <<>>
    /\ topology = WireTopology(<<>>)
    /\ OSPFInit
    /\ DHCPInit
    /\ hist = <<>>

\* an LSA handed to router r from outside: it claims another router as its
\* originator and r as that router's neighbour
ExternalLSAs(r) ==
    {LSA(x, s, a, <<[k |-> r, v |-> DefaultCost]>>) :
        x \in OSPFRouters \ {r}, s \in Seqs, a \in Ages}

CallAddNeighbor ==
    \E r \in OSPFRouters : \E n \in OSPFRouters \ {r} :
        \E ref \in {None, Some(n)} : add_neighbor(r, n, DefaultCost, ref)

CallGenerate == \E r \in OSPFRouters : generate_lsa(r)

CallReceive == \E r \in OSPFRouters : \E lsa \in ExternalLSAs(r) : receive_lsa(r, lsa)

\* the OSPF routers called directly
OspfNext ==
    \/ CallAddNeighbor
    \/ CallGenerate
    \/ CallReceive
    \/ FloodToNeighbour
    \/ FloodReturn

OspfSpec == FreshInit /\ [][OspfNext]_vars

OspfStep ==
    \/ ConnectShare
    \/ ConnectShareDone
    \/ ConnectFloodSecond
    \/ FloodToNeighbour
    \/ FloodReturn

\* the OSPF routers driven through NetworkSimulator.connect_routers only.
\* The routers are alike but for their names, so the first two to be connected
\* are called R1 and R2.
Connect == \E r1 \in OSPFRouters : \E r2 \in OSPFRouters \ {r1} :
               /\ hist = <<>> => r1 = "R1" /\ r2 = "R2"
               /\ \E cost \in Costs : connect_routers(r1, r2, cost)

WireNext == Connect \/ OspfStep

WireSpec == FreshInit /\ [][WireNext]_vars

\* the routers after a sequence of add_neighbor(neighbor_id, 1.0, reference)
\* calls, each call given as <<router, neighbor_id, reference>>
RECURSIVE Neighboured(_, _)
Neighboured(st, calls) ==
    IF calls = <<>> THEN st
    ELSE LET r == calls[1][1]
             nbrs == AddNeighbor(st.neighbors, r, calls[1][2], DefaultCost)
         IN  Neighboured(
                 [neighbors |-> nbrs,
                  neighbor_routers |->
                      AddNeighborRouter(st.neighbor_routers, r, calls[1][2], calls[1][3]),
                  sequence_number |-> [st.sequence_number EXCEPT ![r] = @ + 1],
                  lsdb |-> StoreOwnLSA(st.lsdb, r, st.sequence_number[r], nbrs[r])],
                 Tail(calls))

\* the neighbourhoods a flood starts in: the chain R1-R2-R3, the ring, and R1
\* with a neighbour R2 it holds a reference to and a neighbour R3 it holds none to
NeighbourWirings ==
    {<<<<"R1", "R2", Some("R2")>>, <<"R2", "R1", Some("R1")>>,
       <<"R2", "R3", Some("R3")>>, <<"R3", "R2", Some("R2")>>>>,
     <<<<"R1", "R2", Some("R2")>>, <<"R2", "R1", Some("R1")>>,
       <<"R2", "R3", Some("R3")>>, <<"R3", "R2", Some("R2")>>,
       <<"R3", "R1", Some("R1")>>, <<"R1", "R3", Some("R3")>>>>,
     <<<<"R1", "R2", Some("R2")>>, <<"R1", "R3", None>>,
       <<"R2", "R1", Some("R1")>>>>}

FloodInit ==
    /\ peers = [r \in BGPRouters |-> <<>>]
    /\ bgp_routing_table = [r \in BGPRouters |-> <<>>]
    /\ bgp_stack = <<>>
    /\ topology = WireTopology(<<>>)
    /\ \E w \in NeighbourWirings :
          LET st == Neighboured([neighbors |-> [r \in OSPFRouters |-> <<>>],
                                 neighbor_routers |-> [r \in OSPFRouters |-> <<>>],
                                 sequence_number |-> [r \in OSPFRouters |-> 0],
                                 lsdb |-> [r \in OSPFRouters |-> <<>>]], w)
          IN  /\ neighbors = st.neighbors
              /\ neighbor_routers = st.neighbor_routers
              /\ sequence_number = st.sequence_number
              /\ lsdb = st.lsdb
    /\ lsa_seen = [r \in OSPFRouters |-> {}]
    /\ ospf_routing_table = [r \in OSPFRouters |-> <<>>]
    /\ ospf_stack = <<>>
    /\ raised = ""
    /\ delivered = <<>>
    /\ installs = <<>>
    /\ spf_runs = <<>>
    /\ DHCPInit
    /\ hist = <<>>

\* the LSAs router r is told to flood: its own, or one of another router
FloodLSAs(r) ==
    ExternalLSAs(r) \cup
        (IF DictHas(lsdb[r], r) THEN {DictGet(lsdb[r], r)} ELSE {})

DeliverLSA ==
    /\ Len(hist) < MaxFloods
    /\ \E r \in OSPFRouters : \E lsa \in ExternalLSAs(r) : receive_lsa(r, lsa)

FloodLSA == \E r \in OSPFRouters : \E lsa \in FloodLSAs(r) : flood_lsa(r, lsa)

FloodNext == DeliverLSA \/ FloodLSA \/ FloodToNeighbour \/ FloodReturn

\* receive_lsa and _flood_lsa called on routers that have their neighbours.
\* A call that has started runs on: the cascade is one Python call stack.
\* ENABLED <<FloodReturn>>_vars: the loop of the innermost _flood_lsa is over
\* (FloodReturn then pops or unwinds the stack, which changes vars)
ReturnEnabled ==
    /\ ospf_stack # <<>>
    /\ Last(ospf_stack).kind = "flood"
    /\ Last(ospf_stack).i > Len(neighbor_routers[Last(ospf_stack).r])

\* WF_vars(FloodReturn), with its ENABLED written as ReturnEnabled
FairReturn == []<>(~ReturnEnabled) \/ []<><<FloodReturn>>_vars

FloodSpec ==
    /\ FloodInit
    /\ [][FloodNext]_vars
    /\ WF_vars(FloodToNeighbour)
    /\ FairReturn

\* the OSPF routers called directly, add_neighbor with every cost
CallAddNeighborAtCost ==
    \E r \in OSPFRouters : \E n \in OSPFRouters \ {r} : \E cost \in Costs :
        \E ref \in {None, Some(n)} : add_neighbor(r, n, cost, ref)

NeighborNext ==
    \/ CallAddNeighborAtCost
    \/ CallGenerate
    \/ CallReceive
    \/ FloodToNeighbour
    \/ FloodReturn

NeighborSpec == FreshInit /\ [][NeighborNext]_vars

\* add_neighbor called directly and connect_routers, in any order.  The
\* routers are alike but for their names, so the first call is on R1, with R2.
MixAddNeighbor ==
    /\ Len(hist) < MaxMixedCalls
    /\ \E r \in OSPFRouters : \E n \in OSPFRouters \ {r} :
          /\ hist = <<>> => r = "R1" /\ n = "R2"
          /\ \E cost \in Costs : \E ref \in {None, Some(n)} :
                add_neighbor(r, n, cost, ref)

MixConnect == Len(hist) < MaxMixedCalls /\ Connect

MixNext == MixAddNeighbor \/ MixConnect \/ OspfStep

MixSpec == FreshInit /\ [][MixNext]_vars

\* the DHCP server alone, every router left as constructed
Discover == \E mac \in MACs : discover(mac)
Request == \E mac \in MACs : \E ip \in Addresses : request(mac, ip)
Release == \E mac \in MACs : release(mac)

DhcpNext == Discover \/ Request \/ Release

DhcpSpec == FreshInit /\ [][DhcpNext]_vars

(***************************************************************************)
(* Claims about BGP                                                        *)
(***************************************************************************)
HasAS(path, a) == \E i \in 1..Len(path) : path[i] = a
NoRepeat(path) == \A i, j \in 1..Len(path) : i # j => path[i] # path[j]

\* the last two calls delivered routes for one prefix to one router that held
\* no route for it and whose AS is in neither path, and both calls are over
TwoDeliveries ==
    /\ Idle
    /\ Len(hist) >= 2
    /\ LET e1 == hist[Len(hist) - 1]
           e2 == hist[Len(hist)]
       IN  /\ e1.op = "receive_route"
           /\ e2.op = "receive_route"
           /\ e1.r = e2.r
           /\ e1.arg.prefix = e2.arg.prefix
           /\ ~DictHas(e1.pre[e1.r], e1.arg.prefix)
           /\ ~HasAS(e1.arg.as_path, as_number[e1.r])
           /\ ~HasAS(e2.arg.as_path, as_number[e2.r])

First == hist[Len(hist) - 1]
Second == hist[Len(hist)]

\* C1 (BGP tie stability): when two routes with distinct as_paths of equal
\* length are delivered one after the other to a router that held no route
\* for the prefix, the second delivery leaves the router's routing table as
\* the first delivery left it.
C1_TieKeepsFirstRoute ==
    (/\ TwoDeliveries
     /\ Len(First.arg.as_path) = Len(Second.arg.as_path)
     /\ First.arg.as_path # Second.arg.as_path)
    => bgp_routing_table[Second.r] = Second.pre[Second.r]

\* C2 (BGP loop prevention): a delivery, from outside or from a peer's
\* advertise_route, of a route whose as_path holds the receiver's AS number
\* changes no routing table and starts no advertisement (no frame is pushed).
C2_LoopedRouteIsDropped ==
    [][/\ (/\ Len(hist') = Len(hist) + 1
           /\ Last(hist').op = "receive_route"
           /\ HasAS(Last(hist').arg.as_path, as_number[Last(hist').r]))
          => UNCHANGED <<peers, bgp_routing_table, bgp_stack>>
       /\ (/\ hist' = hist
           /\ bgp_stack # <<>>
           /\ Last(bgp_stack).i <= Len(peers[Last(bgp_stack).r])
           /\ HasAS(Last(bgp_stack).route.as_path,
                    as_number[peers[Last(bgp_stack).r][Last(bgp_stack).i].v]))
          => /\ UNCHANGED <<peers, bgp_routing_table>>
             /\ Len(bgp_stack') = Len(bgp_stack)
             /\ ButLast(bgp_stack') = ButLast(bgp_stack)
             /\ Last(bgp_stack').i = Last(bgp_stack).i + 1
      ]_vars

\* a router that holds a route and has peers was handed, from outside, a
\* route whose path holds its own AS number
C2_Witness ==
    /\ hist # <<>>
    /\ Last(hist).op = "receive_route"
    /\ HasAS(Last(hist).arg.as_path, as_number[Last(hist).r])
    /\ DictHas(bgp_routing_table[Last(hist).r], Last(hist).arg.prefix)
    /\ peers[Last(hist).r] # <<>>

Shorter == IF Len(First.arg.as_path) < Len(Second.arg.as_path)
           THEN First.arg ELSE Second.arg

\* C3 as stated (BGP shortest-path-wins): after two routes of as_path lengths
\* L1 < L2 were delivered in either order, the router's entry for the prefix
\* has an as_path of length L1.
C3_FinalPathHasLengthL1 ==
    (/\ TwoDeliveries
     /\ Len(First.arg.as_path) # Len(Second.arg.as_path))
    => /\ DictHas(bgp_routing_table[Second.r], Second.arg.prefix)
       /\ Len(DictGet(bgp_routing_table[Second.r], Second.arg.prefix).as_path)
              = Len(Shorter.as_path)

\* C3 as amended: after two routes of as_path lengths L1 < L2 were delivered in
\* either order, the router's entry for the prefix is, in both orders, the
\* route of length L1 with the router's own AS number put in front of its
\* as_path (length L1 + 1) and its next hop unchanged.
C3_ShorterRouteWins ==
    (/\ TwoDeliveries
     /\ Len(First.arg.as_path) # Len(Second.arg.as_path))
    => /\ DictHas(bgp_routing_table[Second.r], Second.arg.prefix)
       /\ LET final == DictGet(bgp_routing_table[Second.r], Second.arg.prefix)
          IN  /\ final.as_path = <<as_number[Second.r]>> \o Shorter.as_path
              /\ final.next_hop = Shorter.next_hop
              /\ final.prefix = Second.arg.prefix

\* the longer route came first and the router has peers to tell
C3_Witness ==
    /\ TwoDeliveries
    /\ Len(Second.arg.as_path) < Len(First.arg.as_path)
    /\ peers[Second.r] # <<>>

\* C10 (BGP propagation terminates): in every peer graph, cyclic ones and the
\* full mesh included, a cascade started by advertise_route comes to an end (the
\* call stack empties), and no as_path made on the way repeats an AS number or
\* is longer than the number of routers.
C10_PropagationTerminates ==
    /\ [](\A f \in {bgp_stack[i] : i \in 1..Len(bgp_stack)} :
            /\ NoRepeat(f.route.as_path)
            /\ Len(f.route.as_path) <= Cardinality(BGPRouters))
    /\ [](\A r \in BGPRouters : \A i \in 1..Len(bgp_routing_table[r]) :
            /\ NoRepeat(bgp_routing_table[r][i].v.as_path)
            /\ Len(bgp_routing_table[r][i].v.as_path) <= Cardinality(BGPRouters))
    /\ [](Len(bgp_stack) <= Cardinality(BGPRouters))
    /\ (~Idle ~> Idle)

\* a cascade in the full mesh is three routers deep
C10_Witness ==
    /\ Len(bgp_stack) = Cardinality(BGPRouters)
    /\ \A r \in BGPRouters : Len(peers[r]) = Cardinality(BGPRouters) - 1

(***************************************************************************)
(* Claims about OSPF                                                       *)
(***************************************************************************)
Linked(a, b) == {a, b} \in DOMAIN topology

\* the total costs of the loop-free paths from a to b in the wired topology
\* that stay clear of the routers in visited
RECURSIVE PathCosts(_, _, _)
PathCosts(a, b, visited) ==
    IF a = b THEN {0}
    ELSE UNION {{topology[{a, n}] + c : c \in PathCosts(n, b, visited \cup {a})} :
                   n \in {m \in OSPFRouters \ (visited \cup {a}) : Linked(a, m)}}

Least(S) == CHOOSE x \in S : \A y \in S : x <= y
Greatest(S) == CHOOSE x \in S : \A y \in S : x >= y

\* C4: after any sequence of completed connect_routers calls, for distinct
\* routers R and D joined by a path of the wired topology, R.get_route(D) is
\* (next_hop, cost) with cost the least total cost of a path from R to D and
\* next_hop a neighbour of R on a path of that cost; for D out of reach of R
\* it is None.
C4_RoutesAreShortestPaths ==
    Idle =>
        \A R \in OSPFRouters : \A D \in OSPFRouters \ {R} :
            LET costs == PathCosts(R, D, {}) IN
            IF costs = {} THEN get_route(R, D) = None
            ELSE \E nh \in OSPFRouters \ {R} :
                    /\ Linked(R, nh)
                    /\ PathCosts(nh, D, {R}) # {}
                    /\ topology[{R, nh}] + Least(PathCosts(nh, D, {R})) = Least(costs)
                    /\ get_route(R, D) = Some(<<nh, Least(costs)>>)

\* R1-R2 wired at cost 1 and R2-R3 at cost 2, R3 out of reach of nobody:
\* R1.get_route("R3") is ("R2", 3)
C4_Witness ==
    /\ Idle
    /\ DOMAIN topology = {{"R1", "R2"}, {"R2", "R3"}}
    /\ topology[{"R1", "R2"}] = 1
    /\ topology[{"R2", "R3"}] = 2
    /\ get_route("R1", "R3") = Some(<<"R2", 3>>)

\* a dict as Python compares it: by its items, whatever their order
DictItems(d) == {<<d[i].k, d[i].v>> : i \in 1..Len(d)}

\* C5: after any sequence of completed add_neighbor, generate_lsa and
\* receive_lsa calls, each router's routing_table is what a shortest-path
\* computation from its own id over the graph of its lsdb gives (nothing, when
\* the router is no node of that graph).
C5_TableIsSpfOfLsdb ==
    Idle =>
        \A r \in OSPFRouters :
            DictItems(ospf_routing_table[r]) =
                DictItems(IF SpfRaises(r, lsdb[r]) THEN <<>> ELSE SpfTable(r, lsdb[r]))

NeighbourIds(r) == {neighbor_routers[r][i].k : i \in 1..Len(neighbor_routers[r])}

LoopDone(f) == f.i > Len(neighbor_routers[f.r])

\* C6: a router that refloods an LSA it received never sends it to the
\* neighbour it came from, and by the end of the loop has sent it to every
\* other neighbour.
C6_NeverBackToSender ==
    \A i \in 1..Len(ospf_stack) :
        LET f == ospf_stack[i] IN
        (f.kind = "flood" /\ f.spf) =>
            /\ f.came_from \notin f.sent_to
            /\ LoopDone(f) => f.sent_to = NeighbourIds(f.r) \ {f.came_from}

\* C6 as amended: a router that floods an LSA, its own or one it received,
\* never sends it to the neighbour that is the LSA's originator, and by the end
\* of the loop has sent it to every other neighbour it holds a reference to.
C6_FloodsToAllButOriginator ==
    \A i \in 1..Len(ospf_stack) :
        LET f == ospf_stack[i] IN
        f.kind = "flood" =>
            /\ f.lsa.router_id \notin f.sent_to
            /\ f.sent_to \subseteq NeighbourIds(f.r)
            /\ LoopDone(f) => f.sent_to = NeighbourIds(f.r) \ {f.lsa.router_id}

\* a reflood of a received LSA is over, and the neighbour it came from was
\* among those it was sent to
C6_Witness ==
    \E i \in 1..Len(ospf_stack) :
        LET f == ospf_stack[i] IN
        /\ f.kind = "flood"
        /\ f.spf
        /\ LoopDone(f)
        /\ f.came_from \in f.sent_to
        /\ f.came_from # f.lsa.router_id

\* what was delivered to router R with receive_lsa of originator X's LSAs
DeliveredTo(R, X) ==
    {delivered[i].lsa : i \in {j \in 1..Len(delivered) :
                                  /\ delivered[j].to = R
                                  /\ delivered[j].lsa.router_id = X}}

AtLeastAsRecent(a, b) ==
    \/ a.sequence_number > b.sequence_number
    \/ /\ a.sequence_number = b.sequence_number
       /\ a.age <= b.age

\* C7: lsdb_R holds at most one LSA for an originator X, and it is the most
\* recent of the LSAs of X ever delivered to R: highest sequence_number and,
\* among equal sequence numbers, lowest age.
C7_LsdbHoldsMostRecent ==
    \A R \in OSPFRouters : \A X \in OSPFRouters :
        /\ Cardinality({i \in 1..Len(lsdb[R]) : lsdb[R][i].k = X}) <= 1
        /\ DeliveredTo(R, X) # {} =>
              /\ DictHas(lsdb[R], X)
              /\ Freshness(DictGet(lsdb[R], X)) \in DeliveredTo(R, X)
              /\ \A d \in DeliveredTo(R, X) :
                     AtLeastAsRecent(DictGet(lsdb[R], X), d)

IsDelivery == Len(delivered') = Len(delivered) + 1

NoRepeats(log) == \A i, j \in 1..Len(log) : log[i] = log[j] => i = j

\* C9: the delivery of an LSA whose (router_id, sequence_number) the router has
\* seen changes no lsdb, no seen set and no routing_table, floods nothing and
\* runs no shortest-path computation; and no router floods, or recomputes for,
\* one LSA id twice.
C9_IdempotentFlooding ==
    /\ [](NoRepeats(installs) /\ NoRepeats(spf_runs))
    /\ [][(/\ IsDelivery
           /\ <<Last(delivered').lsa.router_id, Last(delivered').lsa.sequence_number>>
                  \in lsa_seen[Last(delivered').to])
          => /\ lsdb' = lsdb
             /\ lsa_seen' = lsa_seen
             /\ ospf_routing_table' = ospf_routing_table
             /\ installs' = installs
             /\ spf_runs' = spf_runs
             /\ Len(ospf_stack') <= Len(ospf_stack)]_vars

\* an LSA id was delivered twice to one router, which flooded it the first time
C9_Witness ==
    /\ Idle
    /\ \E i \in 1..Len(delivered) : \E j \in (i + 1)..Len(delivered) :
          /\ delivered[i].to = delivered[j].to
          /\ delivered[i].lsa.router_id = delivered[j].lsa.router_id
          /\ delivered[i].lsa.sequence_number = delivered[j].lsa.sequence_number
          /\ delivered[i].lsa.age # delivered[j].lsa.age
          /\ InSeq(<<delivered[i].to, LsaId(delivered[i].lsa)>>, installs)
          /\ InSeq(<<delivered[i].to, LsaId(delivered[i].lsa)>>, spf_runs)

\* C11: in every neighbourhood, the ring included, the cascade started by one
\* receive_lsa or _flood_lsa call comes to an end (the call stack empties), no
\* router installs and refloods one (router_id, sequence_number) twice, and no
\* router has two refloods under way at once.
C11_FloodingTerminates ==
    /\ [](NoRepeats(installs))
    /\ [](\A i, j \in 1..Len(ospf_stack) :
             (/\ i < j
              /\ ospf_stack[i].spf
              /\ ospf_stack[j].spf) => ospf_stack[i].r # ospf_stack[j].r)
    /\ (ospf_stack # <<>>) ~> (ospf_stack = <<>>)

\* in the ring, a cascade is over in which two routers installed one LSA and
\* one of them was handed it a second time
C11_Witness ==
    /\ Idle
    /\ \A r \in OSPFRouters : Len(neighbor_routers[r]) = 2
    /\ \E i, j \in 1..Len(installs) :
          /\ installs[i][1] # installs[j][1]
          /\ installs[i][2] = installs[j][2]
    /\ \E i \in 1..Len(delivered) : \E j \in (i + 1)..Len(delivered) :
          delivered[i] = delivered[j]

\* the routers that called advertise_route for the prefix without an as_path
Originators(prefix) ==
    {hist[i].r : i \in {j \in 1..Len(hist) : /\ hist[j].op = "advertise_route"
                                             /\ hist[j].arg.prefix = prefix}}

\* the AS numbers of a path belong to routers peered one with the next
AlongPeerings(path) ==
    \A i \in 1..(Len(path) - 1) :
        /\ DictHas(peers[RouterOfAS(path[i])], RouterOfAS(path[i + 1]))
        /\ DictHas(peers[RouterOfAS(path[i + 1])], RouterOfAS(path[i]))

\* the ids of the peers of a router
NeighbourSet(r) == {peers[r][i].k : i \in 1..Len(peers[r])}

\* the peerings are those of the chain AS1 - AS2 - AS3 and AS1 alone originated
ChainFromAS1 ==
    /\ Idle
    /\ NeighbourSet("AS1_R1") = {"AS2_R1"}
    /\ NeighbourSet("AS2_R1") = {"AS1_R1", "AS3_R1"}
    /\ NeighbourSet("AS3_R1") = {"AS2_R1"}
    /\ Len(hist) = 1
    /\ hist[1].op = "advertise_route"
    /\ hist[1].r = "AS1_R1"

\* C12: with the peerings made by connect_routers (symmetric) and originations
\* through advertise_bgp_route, every stored as_path starts with the AS of the
\* router that stores it, ends with the AS of a router that originated the
\* prefix, repeats no AS and runs along peerings; in the chain AS1 - AS2 - AS3
\* with AS1 originating, AS2 stores [2, 1] and AS3 stores [3, 2, 1], which is
\* the path get_route_info reports from AS3 to AS1.
C12_PathsRunFromHolderToOriginator ==
    /\ \A r \in BGPRouters : \A i \in 1..Len(bgp_routing_table[r]) :
          LET route == bgp_routing_table[r][i].v IN
          /\ route.prefix = bgp_routing_table[r][i].k
          /\ route.as_path # <<>>
          /\ route.as_path[1] = as_number[r]
          /\ \E o \in Originators(route.prefix) :
                Last(route.as_path) = as_number[o]
          /\ NoRepeat(route.as_path)
          /\ AlongPeerings(route.as_path)
    /\ ChainFromAS1 =>
          \A p \in Prefixes :
              /\ DictHas(bgp_routing_table["AS1_R1"], p)
                 => DictGet(bgp_routing_table["AS1_R1"], p).as_path = <<1>>
              /\ DictHas(bgp_routing_table["AS1_R1"], p)
                 => /\ DictHas(bgp_routing_table["AS2_R1"], p)
                    /\ DictGet(bgp_routing_table["AS2_R1"], p).as_path = <<2, 1>>
                    /\ DictHas(bgp_routing_table["AS3_R1"], p)
                    /\ DictGet(bgp_routing_table["AS3_R1"], p).as_path = <<3, 2, 1>>
                    /\ get_route_info("AS3_R1", "AS1_R1").path = Some(<<3, 2, 1>>)
                    /\ get_route_info("AS2_R1", "AS1_R1").path = Some(<<2, 1>>)

\* the propagation along the chain is over and AS3 holds the prefix
C12_Witness ==
    /\ ChainFromAS1
    /\ \E p \in Prefixes : DictHas(bgp_routing_table["AS3_R1"], p)

\* C13: no OSPF update surfaces an error: every receive_lsa call, with the
\* floods and SPF runs it sets off, returns normally.
C13_UpdatesNeverRaise == raised = ""

\* the step is a call of the method op from outside
IsCall(op) == Len(hist') = Len(hist) + 1 /\ Last(hist').op = op

\* what one OSPF router holds
RouterState(r) ==
    <<neighbors[r], neighbor_routers[r], sequence_number[r], lsdb[r],
      lsa_seen[r], ospf_routing_table[r]>>

\* C16: add_neighbor(neighbor_id, cost) on R records the cost under
\* neighbor_id, raises R's sequence_number by exactly one, stores in
\* lsdb_R[R] an own LSA with the new number whose neighbour map is R's
\* neighbour map after the call, floods nothing, and leaves every other
\* router as it was.
C16_AddNeighborIsLocal ==
    [][IsCall("add_neighbor") =>
         LET R == Last(hist').r
             neighbor_id == Last(hist').arg[1]
             cost == Last(hist').arg[2]
         IN  /\ DictHas(neighbors'[R], neighbor_id)
             /\ DictGet(neighbors'[R], neighbor_id) = cost
             /\ \A n \in OSPFRouters \ {neighbor_id} :
                    /\ DictHas(neighbors'[R], n) = DictHas(neighbors[R], n)
                    /\ DictHas(neighbors[R], n)
                       => DictGet(neighbors'[R], n) = DictGet(neighbors[R], n)
             /\ sequence_number'[R] = sequence_number[R] + 1
             /\ DictHas(lsdb'[R], R)
             /\ DictGet(lsdb'[R], R).router_id = R
             /\ DictGet(lsdb'[R], R).sequence_number = sequence_number'[R]
             /\ DictGet(lsdb'[R], R).neighbors = neighbors'[R]
             /\ \A X \in OSPFRouters \ {R} :
                    /\ DictHas(lsdb'[R], X) = DictHas(lsdb[R], X)
                    /\ DictHas(lsdb[R], X) => DictGet(lsdb'[R], X) = DictGet(lsdb[R], X)
             /\ ospf_stack' = <<>>
             /\ UNCHANGED <<delivered, installs, spf_runs>>
             /\ \A other \in OSPFRouters \ {R} : RouterState(other)' = RouterState(other)]_vars

\* a router was given a neighbour a second time, at another cost
C16_Witness ==
    /\ Len(hist) >= 2
    /\ Last(hist).op = "add_neighbor"
    /\ \E i \in 1..(Len(hist) - 1) :
          /\ hist[i].op = "add_neighbor"
          /\ hist[i].r = Last(hist).r
          /\ hist[i].arg[1] = Last(hist).arg[1]
          /\ hist[i].arg[2] # Last(hist).arg[2]
    /\ sequence_number[Last(hist).r] = 2

\* C17: add_peer(peer) on R adds peer to R's peers and does nothing else: no
\* routing table changes, the peers of every other router, the new peer
\* included, stay as they were, and no route R holds is sent (no
\* advertise_route loop starts).
C17_AddPeerIsOneWayAndSilent ==
    [][IsCall("add_peer") =>
         LET R == Last(hist').r
             peer == Last(hist').arg
         IN  /\ {peers'[R][i].k : i \in 1..Len(peers'[R])} =
                    NeighbourSet(R) \cup {peer}
             /\ \A other \in BGPRouters \ {R} : peers'[other] = peers[other]
             /\ bgp_routing_table' = bgp_routing_table
             /\ bgp_stack' = <<>>]_vars

\* a router that holds a route was given a peer that has no route for the
\* prefix and does not list the router among its own peers
C17_Witness ==
    /\ hist # <<>>
    /\ Last(hist).op = "add_peer"
    /\ bgp_routing_table[Last(hist).r] # <<>>
    /\ bgp_routing_table[Last(hist).arg] = <<>>
    /\ Last(hist).r \notin NeighbourSet(Last(hist).arg)

\* the ids of the peers of a router, in the order of its dict
PeerIds(r) == [i \in 1..Len(peers[r]) |-> peers[r][i].k]

\* C18: advertise_route(p, next_hop) without as_path on R sets
\* routing_table_R[p] to the route with as_path [R's AS] and that next_hop,
\* whatever R held for p, and changes no other table; the loop it starts
\* calls receive_route with that route on each peer of R, once each, in the
\* order of the peers dict, and a peer that held no route for p then holds
\* [peer's AS, R's AS].
C18_OriginationOverwritesAndAnnounces ==
    [][/\ IsCall("advertise_route") =>
            LET R == Last(hist').r
                route == Last(hist').arg
            IN  /\ route.as_path = <<as_number[R]>>
                /\ DictHas(bgp_routing_table'[R], route.prefix)
                /\ DictGet(bgp_routing_table'[R], route.prefix) = route
                /\ \A other \in BGPRouters \ {R} :
                       bgp_routing_table'[other] = bgp_routing_table[other]
                /\ peers' = peers
                /\ Len(bgp_stack') = 1
                /\ bgp_stack'[1].r = R
                /\ bgp_stack'[1].route = route
                /\ bgp_stack'[1].sent_to = <<>>
       /\ (/\ hist # <<>>
           /\ hist' = hist
           /\ Last(hist).op = "advertise_route"
           /\ Len(bgp_stack) = 1)
          => LET f == bgp_stack[1] IN
             /\ f.r = Last(hist).r
             /\ f.route = Last(hist).arg
             /\ f.sent_to = SubSeq(PeerIds(f.r), 1, Len(f.sent_to))
             /\ bgp_stack' = <<>> => f.sent_to = PeerIds(f.r)
             /\ (bgp_stack' # <<>> /\ bgp_stack'[1].sent_to # f.sent_to)
                => LET peer == Last(bgp_stack'[1].sent_to) IN
                   /\ bgp_stack'[1].sent_to = Append(f.sent_to, peer)
                   /\ peer \in NeighbourSet(f.r)
                   /\ ~DictHas(bgp_routing_table[peer], f.route.prefix)
                      => /\ DictHas(bgp_routing_table'[peer], f.route.prefix)
                         /\ DictGet(bgp_routing_table'[peer], f.route.prefix).as_path
                                = <<as_number[peer], as_number[f.r]>>
      ]_vars

\* a router with two peers that held a learned route originated the prefix,
\* and the announcement is over
C18_Witness ==
    /\ Idle
    /\ hist # <<>>
    /\ Last(hist).op = "advertise_route"
    /\ Len(peers[Last(hist).r]) = 2
    /\ DictHas(Last(hist).pre[Last(hist).r], Last(hist).arg.prefix)
    /\ Len(DictGet(Last(hist).pre[Last(hist).r], Last(hist).arg.prefix).as_path) > 1
    /\ DictGet(bgp_routing_table[Last(hist).r], Last(hist).arg.prefix).as_path
           = <<as_number[Last(hist).r]>>

\* the ids of the neighbours a router has a cost for
NeighborCostIds(r) == {neighbors[r][i].k : i \in 1..Len(neighbors[r])}

\* C19: _flood_lsa(lsa) on R, called from outside or by receive_lsa, calls
\* receive_lsa with the very LSA once on each neighbour R holds a router
\* reference to, the one whose id is lsa.router_id excepted, and on no one
\* else; a neighbour R has a cost for but no reference to receives nothing.
C19_FloodReachesEachNeighbourOnce ==
    /\ [](\A k \in 1..Len(ospf_stack) :
            LET f == ospf_stack[k] IN
            f.kind = "flood" =>
                /\ f.sent_to \cap (NeighborCostIds(f.r) \ NeighbourIds(f.r)) = {}
                /\ LoopDone(f) => f.sent_to = NeighbourIds(f.r) \ {f.lsa.router_id})
    /\ [][(/\ hist' = hist
           /\ ospf_stack # <<>>
           /\ Last(ospf_stack).kind = "flood"
           /\ Len(ospf_stack') >= Len(ospf_stack))
          => LET f == Last(ospf_stack)
                 g == ospf_stack'[Len(ospf_stack)]
             IN  /\ g.lsa = f.lsa
                 /\ g.i = f.i + 1
                 /\ \/ /\ g.sent_to = f.sent_to
                       /\ delivered' = delivered
                       /\ lsdb' = lsdb
                    \/ \E n \in NeighbourIds(f.r) \ f.sent_to :
                          /\ n # f.lsa.router_id
                          /\ g.sent_to = f.sent_to \cup {n}
                          /\ delivered' =
                                 Append(delivered, [to |-> n, lsa |-> Freshness(f.lsa)])
                          /\ installs' # installs
                             => /\ DictGet(lsdb'[n], f.lsa.router_id) = f.lsa
                                /\ Last(ospf_stack').lsa = f.lsa]_vars

\* a _flood_lsa called from outside on a router with a neighbour it has a
\* reference to and a neighbour it has none to is over, and it sent the LSA
C19_Witness ==
    \E k \in 1..Len(ospf_stack) :
        LET f == ospf_stack[k] IN
        /\ f.kind = "flood"
        /\ f.came_from = "outside"
        /\ ~f.spf
        /\ LoopDone(f)
        /\ f.sent_to # {}
        /\ NeighborCostIds(f.r) \ NeighbourIds(f.r) # {}

\* C20: no operation takes an id out of a router's lsa_seen; and a delivery
\* of an LSA that is not newer than the one the lsdb holds for its originator
\* still puts its id into lsa_seen, while no lsdb and no routing_table
\* changes, nothing is flooded and no shortest-path computation starts.
C20_SeenOnlyGrows ==
    /\ [][\A r \in OSPFRouters : lsa_seen[r] \subseteq lsa_seen'[r]]_vars
    /\ [][IsDelivery =>
            LET d == Last(delivered')
                stored == DictGet(lsdb[d.to], d.lsa.router_id)
            IN  (/\ DictHas(lsdb[d.to], d.lsa.router_id)
                 /\ \/ d.lsa.sequence_number < stored.sequence_number
                    \/ /\ d.lsa.sequence_number = stored.sequence_number
                       /\ d.lsa.age >= stored.age)
                => /\ LsaId(d.lsa) \in lsa_seen'[d.to]
                   /\ lsdb' = lsdb
                   /\ ospf_routing_table' = ospf_routing_table
                   /\ Len(ospf_stack') <= Len(ospf_stack)
                   /\ installs' = installs
                   /\ spf_runs' = spf_runs]_vars

\* an LSA older than the stored one, with an id not seen before, was delivered:
\* its id is in lsa_seen next to the stored one's, and the lsdb has the newer
C20_Witness ==
    /\ Idle
    /\ delivered # <<>>
    /\ LET d == Last(delivered) IN
       /\ DictHas(lsdb[d.to], d.lsa.router_id)
       /\ DictGet(lsdb[d.to], d.lsa.router_id).sequence_number > d.lsa.sequence_number
       /\ LsaId(d.lsa) \in lsa_seen[d.to]
       /\ LsaId(DictGet(lsdb[d.to], d.lsa.router_id)) \in lsa_seen[d.to]
       /\ Cardinality(lsa_seen[d.to]) = 2

(***************************************************************************)
(* Claims about DHCP                                                       *)
(***************************************************************************)
\* the pool addresses that used_ips records as held by a MAC address
HeldBy(mac) == {used_ips[i].k : i \in {j \in 1..Len(used_ips) : used_ips[j].v = mac}}

\* the address of the active lease of a MAC address, if it has one
LeasedTo(mac) ==
    {active_leases[i].v.ip_address :
        i \in {j \in 1..Len(active_leases) : active_leases[j].k = mac}}

\* C14: each MAC address occupies at most one address of the pool: the
\* entries of used_ips that map to it are at most one, the address of its
\* active lease, and none when it has no lease (as after release).
C14_OneAddressPerMac ==
    \A mac \in MACs :
        /\ Cardinality(HeldBy(mac)) <= 1
        /\ HeldBy(mac) = LeasedTo(mac)

\* the last call was a request, with what it was asked
LastRequest(mac, ip) ==
    /\ Len(hist') = Len(hist) + 1
    /\ Last(hist').op = "request"
    /\ Last(hist').r = mac
    /\ Last(hist').arg = ip

\* C15: no address is leased to two MAC addresses at once, every leased
\* address lies in start_ip..end_ip and is recorded in used_ips for its
\* holder; a request for an address outside the pool or recorded for another
\* MAC address returns no lease and leaves active_leases and used_ips as
\* they were; discover offers nothing but a pool address nobody holds or the
\* caller's own.
C15_ExclusiveAndInRange ==
    /\ [](\A m1, m2 \in MACs :
            m1 # m2 => LeasedTo(m1) \cap LeasedTo(m2) = {})
    /\ [](\A mac \in MACs : \A ip \in LeasedTo(mac) :
            /\ start_ip <= ip
            /\ ip <= end_ip
            /\ ip \in HeldBy(mac))
    /\ [][\A mac \in MACs : \A ip \in Addresses :
            (/\ LastRequest(mac, ip)
             /\ \/ ip < start_ip
                \/ ip > end_ip
                \/ \E other \in MACs \ {mac} : ip \in HeldBy(other))
            => /\ returned' = None
               /\ UNCHANGED <<active_leases, used_ips>>]_vars
    /\ [][\A mac \in MACs :
            (/\ Len(hist') = Len(hist) + 1
             /\ Last(hist').op = "discover"
             /\ Last(hist').r = mac
             /\ returned' # None)
            => /\ start_ip <= returned'[1]
               /\ returned'[1] <= end_ip
               /\ \A other \in MACs \ {mac} : returned'[1] \notin HeldBy(other)]_vars

\* a request for a pool address that another MAC address holds was turned down
C15_Witness ==
    /\ hist # <<>>
    /\ Last(hist).op = "request"
    /\ returned = None
    /\ Last(hist).arg \in start_ip..end_ip
    /\ \E other \in MACs \ {Last(hist).r} : Last(hist).arg \in LeasedTo(other)

(***************************************************************************)
(* Claims about convergence and LSA identity                               *)
(***************************************************************************)
\* the routers joined to r by a path of the wired topology, r itself included
Component(r) == {x \in OSPFRouters : PathCosts(r, x, {}) # {}}

\* router R stores the LSA of X that X last generated
HoldsCurrentLSA(R, X) ==
    /\ DictHas(lsdb[R], X)
    /\ DictGet(lsdb[R], X).router_id = X
    /\ DictGet(lsdb[R], X).sequence_number = sequence_number[X]
    /\ DictGet(lsdb[R], X).neighbors = neighbors[X]

\* C21: after every completed connect_routers call, every router of a
\* connected component of the wired topology stores, for every router X of
\* the component, the LSA of X with X's current sequence_number and X's
\* current neighbour map; so the routers of a component hold the same LSAs
\* for the component.
C21_LsdbsConverge ==
    (Idle /\ hist # <<>>) =>
        /\ raised = ""
        /\ \A R \in OSPFRouters : \A X \in Component(R) :
              Component(R) # {R} => HoldsCurrentLSA(R, X)
        /\ \A R \in OSPFRouters : \A S \in Component(R) : \A X \in Component(R) :
              (DictHas(lsdb[R], X) /\ DictHas(lsdb[S], X))
              => DictGet(lsdb[R], X) = DictGet(lsdb[S], X)

\* all three routers are in one component after completed calls, and a router
\* holds the current LSA of a router it is not wired to
C21_Witness ==
    /\ Idle
    /\ raised = ""
    /\ Component("R1") = OSPFRouters
    /\ \E a \in OSPFRouters : \E b \in OSPFRouters \ {a} :
          /\ ~Linked(a, b)
          /\ HoldsCurrentLSA(a, b)
          /\ HoldsCurrentLSA(b, a)

\* the routers within k peerings of router o
RECURSIVE Within(_, _)
Within(o, k) ==
    IF k = 0 THEN {o}
    ELSE LET near == Within(o, k - 1)
         IN  near \cup {x \in BGPRouters : \E y \in near : x \in NeighbourSet(y)}

PeerComponent(o) == Within(o, Cardinality(BGPRouters))

\* the hop distance in the peer graph, for r in the component of o
HopDistance(r, o) == Least({k \in 0..Cardinality(BGPRouters) : r \in Within(o, k)})

\* one router has originated one prefix, once, and the propagation is over
OriginatedOnce ==
    /\ Idle
    /\ Len(hist) = 1
    /\ hist[1].op = "advertise_route"

\* C22: when a single router O has originated a prefix once in a symmetric
\* peer graph and the propagation is over, every router of O's component
\* holds a route for the prefix whose as_path has as many entries as its hop
\* distance to O plus one, in whatever order the peers dicts were filled.
C22_ShortestPathsAtQuiescence ==
    OriginatedOnce =>
        \A r \in PeerComponent(hist[1].r) :
            /\ DictHas(bgp_routing_table[r], hist[1].arg.prefix)
            /\ Len(DictGet(bgp_routing_table[r], hist[1].arg.prefix).as_path)
                   = HopDistance(r, hist[1].r) + 1

\* the full mesh: the peer O visits second is also a peer of the one it visits
\* first, so it learned the path through that one before the direct one
C22_Witness ==
    /\ OriginatedOnce
    /\ \A r \in BGPRouters : Len(peers[r]) = Cardinality(BGPRouters) - 1
    /\ LET O == hist[1].r
           second == peers[O][2].k
       IN  /\ peers[peers[O][1].k][1].k = second
           /\ DictGet(bgp_routing_table[second], hist[1].arg.prefix).as_path
                  = <<as_number[second], as_number[O]>>

\* every LSA in the system: those stored in an lsdb and those a suspended
\* _flood_lsa or connect_routers still holds
LSAsInSystem ==
    UNION {{lsdb[r][i].v : i \in 1..Len(lsdb[r])} : r \in OSPFRouters}
    \cup {ospf_stack[k].lsa :
             k \in {j \in 1..Len(ospf_stack) : ospf_stack[j].kind = "flood"}}
    \cup {ospf_stack[k].lsa2 :
             k \in {j \in 1..Len(ospf_stack) :
                       /\ ospf_stack[j].kind = "connect"
                       /\ ospf_stack[j].phase = "flood2"}}

\* C23: under add_neighbor and connect_routers calls in any order, a router's
\* counter goes up by one with each LSA it generates, the first being number
\* 1; lsdb_R[R] carries R's counter; no LSA of X anywhere has a number above
\* X's counter; and two LSAs with the same router_id and sequence_number
\* have the same neighbour map.
C23_LsaIdentity ==
    /\ [](\A R \in OSPFRouters :
            /\ DictHas(lsdb[R], R) <=> sequence_number[R] >= 1
            /\ DictHas(lsdb[R], R) =>
                  /\ DictGet(lsdb[R], R).router_id = R
                  /\ DictGet(lsdb[R], R).sequence_number = sequence_number[R])
    /\ [](\A lsa \in LSAsInSystem :
            /\ lsa.sequence_number >= 1
            /\ lsa.sequence_number <= sequence_number[lsa.router_id])
    /\ [](\A a, b \in LSAsInSystem : LsaId(a) = LsaId(b) => a.neighbors = b.neighbors)
    /\ [][\A R \in OSPFRouters :
            \/ /\ sequence_number'[R] = sequence_number[R]
               /\ DictHas(lsdb[R], R) = DictHas(lsdb'[R], R)
               /\ DictHas(lsdb[R], R) => DictGet(lsdb'[R], R) = DictGet(lsdb[R], R)
            \/ /\ sequence_number'[R] = sequence_number[R] + 1
               /\ DictHas(lsdb'[R], R)
               /\ DictGet(lsdb'[R], R).sequence_number = sequence_number'[R]
               /\ DictGet(lsdb'[R], R).neighbors = neighbors'[R]]_vars

\* a router was given a neighbour by add_neighbor and then wired by
\* connect_routers: its third LSA is stored by the router it was wired to
C23_Witness ==
    /\ Idle
    /\ \E i \in 1..Len(hist) : hist[i].op = "add_neighbor"
    /\ \E i \in 1..Len(hist) : hist[i].op = "connect_routers"
    /\ \E R \in OSPFRouters : \E X \in OSPFRouters \ {R} :
          /\ sequence_number[X] >= 3
          /\ DictHas(lsdb[R], X)
          /\ DictGet(lsdb[R], X).sequence_number = sequence_number[X]

====
